---------------------------- MODULE Spec2Model ----------------------------
(***************************************************************************)
(* Model of the remoteController firmware:                                 *)
(*   - struct Button / struct Led and loop()            (src/main.cpp)     *)
(*   - the HTTP handlers and their globals              (src/main.cpp)     *)
(*   - class Device                                     (src/device/)      *)
(* main.cpp never instantiates Device: the HTTP handlers work on the       *)
(* globals currentPosition / isHomed.  The three parts share no state, so  *)
(* each has its own specification (Spec, SpecSat: loop(); SpecHttp: the    *)
(* handlers; SpecDevice: the class).                                       *)
(***************************************************************************)
EXTENDS Integers, Sequences, FiniteSets, TLC

VARIABLES
    now,             \* value returned by millis() (uint32_t)
    button,          \* struct Button: lastReading, lastDebounceTime, state
    led,             \* struct Led led: on
    onboard_led,     \* struct Led onboard_led: on
    reads,           \* number of loop() iterations run so far (model bound)
    mon,             \* observer of the raw input and of pressed()/held()/released()
    device,          \* class Device: homed, limit, currentPosition
    lastCall,        \* last Device method called, its argument, the object before
    currentPosition, \* global float currentPosition (main.cpp)
    isHomed,         \* global bool isHomed (main.cpp)
    response,        \* last HTTP response sent by a handler
    httpMon          \* observer of the requests handled

vars == <<now, button, led, onboard_led, reads, mon,
          device, lastCall, currentPosition, isHomed, response, httpMon>>

loopVars   == <<now, button, led, onboard_led, reads, mon>>
deviceVars == <<device, lastCall>>
httpVars   == <<currentPosition, isHomed, response, httpMon>>

----------------------------------------------------------------------------
(* Program constants *)

DEBOUNCE_DELAY == 10
AXIS_LIMIT == 80
NUMBER_OF_AXES == 1
RELEASED_SENTINEL == 65535
HELD_MAX == 65534
DEVICE_LIMIT == 1000

\* Arduino logic levels; Button::lastReading is a bool
HIGH == TRUE
LOW  == FALSE

(* Model bounds *)
MaxReads  == 7    \* loop() iterations explored
MaxCount  == 3    \* largest argument tried for held(count)
SatMargin == 4    \* SpecSat starts this many counts below RELEASED_SENTINEL

\* time that can pass between two loop() iterations, in ms
Steps == 0..(DEBOUNCE_DELAY + 1)

\* millis() - lastDebounceTime in uint32_t.  The model covers the first
\* 2^32 ms of uptime, where millis() has not wrapped and is never below a
\* timestamp taken earlier, so the unsigned difference is the plain one.
Sub32(a, b) == a - b

----------------------------------------------------------------------------
(* struct Button *)

pressed(b)     == b.state = 1
released(b)    == b.state = RELEASED_SENTINEL
held(b, count) == b.state > 1 + count /\ b.state < RELEASED_SENTINEL

\* millis() - lastDebounceTime > DEBOUNCE_DELAY: out of the bouncing phase
\* (Settled_ge: the faulty variant with >= for >)
Settled_ge(t, ldt) == Sub32(t, ldt) >= DEBOUNCE_DELAY
Settled(t, ldt) == Sub32(t, ldt) > DEBOUNCE_DELAY

\* the update of state on a settled LOW (pressed) reading
\* (faulty variants: _nowrap counts on into the sentinel, _wrap1 restarts
\* at 1)
CountPressed_nowrap(state) ==
    IF state < RELEASED_SENTINEL THEN state + 1 ELSE state
CountPressed_wrap1(state) ==
    IF state < HELD_MAX THEN state + 1
    ELSE IF state = HELD_MAX THEN 1
    ELSE state
CountPressed(state) ==
    IF state < HELD_MAX THEN state + 1
    ELSE IF state = HELD_MAX THEN 2
    ELSE state

\* the update of state on a settled HIGH (not pressed) reading
\* (CountReleased_direct: the faulty variant that skips the sentinel)
CountReleased_direct(state) == 0
CountReleased(state) ==
    IF state # 0
    THEN (IF state = RELEASED_SENTINEL THEN 0 ELSE RELEASED_SENTINEL)
    ELSE state

\* Button::read() with digitalRead(pin) = reading and millis() = t.  The two
\* millis() calls of one read() return the same value: the body between
\* them takes microseconds.
\* (Button_read_noReset: the faulty variant that never restarts the timer)
Button_read_noReset(b, reading, t) ==
    LET ldt == b.lastDebounceTime
        isPressed == (reading = LOW)
        st  == IF Settled(t, ldt)
               THEN IF isPressed THEN CountPressed(b.state)
                                 ELSE CountReleased(b.state)
               ELSE b.state
    IN  [lastReading |-> reading, lastDebounceTime |-> ldt, state |-> st]
Button_read(b, reading, t) ==
    LET ldt == IF reading # b.lastReading THEN t ELSE b.lastDebounceTime
        isPressed == (reading = LOW)
        st  == IF Settled(t, ldt)
               THEN IF isPressed THEN CountPressed(b.state)
                                 ELSE CountReleased(b.state)
               ELSE b.state
    IN  [lastReading |-> reading, lastDebounceTime |-> ldt, state |-> st]

----------------------------------------------------------------------------
(* Observer of one read(): what the raw input did and what the accessors   *)
(* answered.  It is computed from the raw samples and their timestamps     *)
(* alone, never from lastDebounceTime.                                     *)

Cap(n, m) == IF n > m THEN m ELSE n

MonNext(m, b, reading, t) ==
    LET changed  == reading # m.raw
        since    == IF changed THEN t ELSE m.rawSince
        settled  == Sub32(t, since) > DEBOUNCE_DELAY
        phase    == CASE m.phase = "idle" -> IF reading = LOW THEN "low" ELSE "idle"
                      [] m.phase = "low"  -> IF reading = LOW THEN "low" ELSE "high"
                      [] m.phase = "high" -> IF reading = LOW THEN "off" ELSE "high"
                      [] OTHER            -> "off"
        lowSet   == IF phase = "low" /\ settled
                    THEN Cap(m.lowSettled + 1, 2) ELSE m.lowSettled
    IN  [raw        |-> reading,
         rawSince   |-> since,
         settled    |-> settled,
         changes    |-> Cap(m.changes + (IF changed THEN 1 ELSE 0), 3),
         bouncing   |-> m.bouncing /\ ~settled,
         prev       |-> m.cur,
         cur        |-> b.state,
         phase      |-> phase,
         lowSettled |-> lowSet,
         highSettled|-> m.highSettled \/ (phase = "high" /\ settled),
         nPressed   |-> Cap(m.nPressed + (IF pressed(b) THEN 1 ELSE 0), 2),
         nReleased  |-> Cap(m.nReleased + (IF released(b) THEN 1 ELSE 0), 2),
         heldOk     |-> m.heldOk /\
                        (phase = "low" /\ settled /\ m.lowSettled >= 1
                            => held(b, 0)),
         \* the current (or last) run of consecutive LOW samples
         runSettled |-> IF reading = HIGH THEN m.runSettled
                        ELSE (~changed /\ m.runSettled) \/ settled,
         runPressed |-> IF reading = HIGH THEN m.runPressed
                        ELSE Cap((IF changed THEN 0 ELSE m.runPressed)
                                 + (IF pressed(b) THEN 1 ELSE 0), 2),
         \* since the last settled HIGH sample: LED toggles by loop(), and
         \* whether a LOW sample settled; closed* are their values over the
         \* interval that the last settled HIGH sample ended
         tog        |-> IF settled /\ reading = HIGH THEN 0
                        ELSE Cap(m.tog + (IF pressed(b) THEN 1 ELSE 0), 2),
         conf       |-> IF settled /\ reading = HIGH THEN FALSE
                        ELSE m.conf \/ (settled /\ reading = LOW),
         closedTog  |-> IF settled /\ reading = HIGH THEN m.tog ELSE m.closedTog,
         closedConf |-> IF settled /\ reading = HIGH THEN m.conf ELSE m.closedConf]

----------------------------------------------------------------------------
(* loop() *)

loop ==
    /\ reads < MaxReads
    /\ \E reading \in BOOLEAN, d \in Steps :
         LET t == now + d
             b == Button_read(button, reading, t)
         IN  /\ now' = t
             /\ button' = b
             /\ led' = [on |-> IF pressed(b) THEN ~led.on ELSE led.on]
             /\ onboard_led' = [on |-> (t % 1000) < 50]
             /\ mon' = MonNext(mon, b, reading, t)
    /\ reads' = reads + 1
    /\ UNCHANGED <<deviceVars, httpVars>>

\* handleWebSocketMessage() with a final text frame {"action": action}
handleWebSocketMessage ==
    /\ \E action \in {"toggle", "other"} :
         led' = [on |-> IF action = "toggle" THEN ~led.on ELSE led.on]
    /\ UNCHANGED <<now, button, onboard_led, reads, mon, deviceVars, httpVars>>

----------------------------------------------------------------------------
(* Float values: finite numbers (integers stand for the floats they are),  *)
(* the infinities and NaN.                                                 *)

F(n) == [cls |-> "fin", v |-> n]
NaN  == [cls |-> "nan", v |-> 0]
PInf == [cls |-> "pinf", v |-> 0]
NInf == [cls |-> "ninf", v |-> 0]

IsNaN(a) == a.cls = "nan"

\* the comparisons of IEEE floats: every comparison with NaN is false
FLt(a, b) ==
    /\ ~IsNaN(a) /\ ~IsNaN(b)
    /\ \/ a.cls = "ninf" /\ b.cls # "ninf"
       \/ b.cls = "pinf" /\ a.cls # "pinf"
       \/ a.cls = "fin" /\ b.cls = "fin" /\ a.v < b.v
FLe(a, b) == ~IsNaN(a) /\ ~IsNaN(b) /\ (FLt(a, b) \/ a = b)
FGt(a, b) == FLt(b, a)
FGe(a, b) == FLe(b, a)

\* the position values tried as arguments and request bodies
TargetInts == {-5, -1, 0, 1, 42, 79, 80, 81, 200, 999, 1000, 1001, 2000}
Targets == {F(n) : n \in TargetInts} \cup {NaN, PInf, NInf}

----------------------------------------------------------------------------
(* class Device *)

\* Device::homeAxis()
\* (Device_homeAxis_flagOnly: the faulty variant that keeps the position)
Device_homeAxis_flagOnly(d) == [d EXCEPT !.homed = TRUE]
Device_homeAxis(d) ==
    [d EXCEPT !.currentPosition = F(0), !.homed = TRUE]

\* Device::setPosition(float newPosition)
\* (faulty variants: _noUpper has no upper clamp, _lowIsLimit sends a
\* negative target to the limit, _unhome clears homed, _elseCommit commits
\* the target in a final else)
Device_setPosition_unhome(d, newPosition) ==
    IF FLt(newPosition, F(0))
    THEN [d EXCEPT !.currentPosition = F(0), !.homed = FALSE]
    ELSE IF FLe(newPosition, d.limit) /\ FGe(newPosition, F(0))
    THEN [d EXCEPT !.currentPosition = newPosition, !.homed = FALSE]
    ELSE IF FGt(newPosition, d.limit)
    THEN [d EXCEPT !.currentPosition = d.limit, !.homed = FALSE]
    ELSE d
Device_setPosition_elseCommit(d, newPosition) ==
    IF FLt(newPosition, F(0))
    THEN [d EXCEPT !.currentPosition = F(0)]
    ELSE IF FGt(newPosition, d.limit)
    THEN [d EXCEPT !.currentPosition = d.limit]
    ELSE [d EXCEPT !.currentPosition = newPosition]
Device_setPosition_noUpper(d, newPosition) ==
    IF FLt(newPosition, F(0))
    THEN [d EXCEPT !.currentPosition = F(0)]
    ELSE IF FGe(newPosition, F(0))
    THEN [d EXCEPT !.currentPosition = newPosition]
    ELSE d
Device_setPosition_lowIsLimit(d, newPosition) ==
    IF FLt(newPosition, F(0))
    THEN [d EXCEPT !.currentPosition = d.limit]
    ELSE IF FLe(newPosition, d.limit) /\ FGe(newPosition, F(0))
    THEN [d EXCEPT !.currentPosition = newPosition]
    ELSE IF FGt(newPosition, d.limit)
    THEN [d EXCEPT !.currentPosition = d.limit]
    ELSE d
Device_setPosition(d, newPosition) ==
    IF FLt(newPosition, F(0))
    THEN [d EXCEPT !.currentPosition = F(0)]
    ELSE IF FLe(newPosition, d.limit) /\ FGe(newPosition, F(0))
    THEN [d EXCEPT !.currentPosition = newPosition]
    ELSE IF FGt(newPosition, d.limit)
    THEN [d EXCEPT !.currentPosition = d.limit]
    ELSE d

Device_isHomed(d)     == d.homed
Device_getPosition(d) == d.currentPosition
Device_getLimit(d)    == d.limit

\* a caller invokes device.homeAxis()
CallHomeAxis ==
    /\ device' = Device_homeAxis(device)
    /\ lastCall' = [op |-> "homeAxis", arg |-> F(0), before |-> device,
                    prevOp |-> lastCall.op, prevBefore |-> lastCall.before]
    /\ UNCHANGED <<loopVars, httpVars>>

\* a caller invokes device.setPosition(newPosition)
CallSetPosition ==
    /\ \E newPosition \in Targets :
         /\ device' = Device_setPosition(device, newPosition)
         /\ lastCall' = [op |-> "setPosition", arg |-> newPosition,
                         before |-> device,
                         prevOp |-> lastCall.op, prevBefore |-> lastCall.before]
    /\ UNCHANGED <<loopVars, httpVars>>

----------------------------------------------------------------------------
(* The HTTP handlers of main.cpp and the globals they work on.  httpMon   *)
(* records whether /homeAxis was handled with no /setPosition since, and   *)
(* the position the global held when it was.                               *)

\* bodies of a POST /setPosition: no "position" key, "position":[number],
\* or "position":[something that is no number]
Bodies ==
    {[has |-> FALSE, num |-> FALSE, v |-> 0], [has |-> TRUE, num |-> FALSE, v |-> 0]}
    \cup {[has |-> TRUE, num |-> TRUE, v |-> n] : n \in TargetInts}

\* float position = jsonObj["position"][0]: the number as a float (the
\* integers tried are floats), 0.0 for a value that is no number
JsonAsFloat(body) == IF body.num THEN F(body.v) ELSE F(0)

getDeviceType ==
    /\ response' = [code |-> 200, kind |-> "getDeviceType", type |-> "1d"]
    /\ UNCHANGED <<currentPosition, isHomed, httpMon, loopVars, deviceVars>>

getNumberOfAxes ==
    /\ response' = [code |-> 200, kind |-> "getNumberOfAxes",
                    numberOfAxes |-> NUMBER_OF_AXES]
    /\ UNCHANGED <<currentPosition, isHomed, httpMon, loopVars, deviceVars>>

getPosition ==
    /\ response' = [code |-> 200, kind |-> "getPosition",
                    axes |-> <<NUMBER_OF_AXES>>, units |-> <<"mm">>,
                    position |-> <<currentPosition>>]
    /\ UNCHANGED <<currentPosition, isHomed, httpMon, loopVars, deviceVars>>

homeAxis ==
    /\ isHomed' = TRUE
    /\ response' = [code |-> 200, kind |-> "homeAxis"]
    /\ httpMon' = [homeFresh |-> TRUE, positionAtHome |-> currentPosition]
    /\ UNCHANGED <<currentPosition, loopVars, deviceVars>>

axisHomeCheck ==
    /\ response' = [code |-> 200, kind |-> "axisHomeCheck",
                    axesChecked |-> <<NUMBER_OF_AXES>>,
                    homeStatus |-> <<isHomed>>]
    /\ UNCHANGED <<currentPosition, isHomed, httpMon, loopVars, deviceVars>>

setPosition ==
    /\ \E jsonObj \in Bodies :
         currentPosition' = IF jsonObj.has THEN JsonAsFloat(jsonObj)
                                           ELSE currentPosition
    /\ response' = [code |-> 200, kind |-> "setPosition"]
    /\ httpMon' = [httpMon EXCEPT !.homeFresh = FALSE]
    /\ UNCHANGED <<isHomed, loopVars, deviceVars>>

\* "mm" is added to limits, not to units (limit.add("mm"))
getAxesLimits ==
    /\ response' = [code |-> 200, kind |-> "getAxesLimits",
                    axes |-> <<NUMBER_OF_AXES>>,
                    limits |-> <<AXIS_LIMIT, "mm">>, units |-> <<>>]
    /\ UNCHANGED <<currentPosition, isHomed, httpMon, loopVars, deviceVars>>

InitMon ==
    [raw |-> HIGH, rawSince |-> 0, settled |-> FALSE, changes |-> 0,
     bouncing |-> TRUE, prev |-> 0, cur |-> 0, phase |-> "idle",
     lowSettled |-> 0, highSettled |-> FALSE,
     nPressed |-> 0, nReleased |-> 0, heldOk |-> TRUE,
     runSettled |-> FALSE, runPressed |-> 0,
     tog |-> 0, conf |-> FALSE, closedTog |-> 0, closedConf |-> FALSE]

InitLoop ==
    /\ now = 0
    /\ button = [lastReading |-> HIGH, lastDebounceTime |-> 0, state |-> 0]
    /\ led = [on |-> FALSE]
    /\ onboard_led = [on |-> FALSE]
    /\ reads = 0
    /\ mon = InitMon

InitDevice ==
    /\ device = [homed |-> FALSE, limit |-> F(DEVICE_LIMIT), currentPosition |-> F(0)]
    /\ lastCall = [op |-> "Device", arg |-> F(0), before |-> device,
                   prevOp |-> "none", prevBefore |-> device]

InitHttp ==
    /\ currentPosition = F(0)
    /\ isHomed = FALSE
    /\ response = [code |-> 0, kind |-> "none"]
    /\ httpMon = [homeFresh |-> FALSE, positionAtHome |-> F(0)]

\* A state loop() reaches when the button is down from the first sample on:
\* LOW first read at 0 ms, settled at DEBOUNCE_DELAY + 1 ms (fresh press, LED
\* toggled), then polled until the counter is SatMargin below the sentinel.
InitLoopSat ==
    /\ now = DEBOUNCE_DELAY + 1
    /\ button = [lastReading |-> LOW, lastDebounceTime |-> 0,
                 state |-> RELEASED_SENTINEL - SatMargin]
    /\ led = [on |-> TRUE]
    /\ onboard_led = [on |-> TRUE]
    /\ reads = 0
    /\ mon = [raw |-> LOW, rawSince |-> 0, settled |-> TRUE, changes |-> 1,
              bouncing |-> FALSE, prev |-> RELEASED_SENTINEL - SatMargin - 1,
              cur |-> RELEASED_SENTINEL - SatMargin, phase |-> "low",
              lowSettled |-> 2, highSettled |-> FALSE,
              nPressed |-> 1, nReleased |-> 0, heldOk |-> TRUE,
              runSettled |-> TRUE, runPressed |-> 1,
              tog |-> 1, conf |-> TRUE, closedTog |-> 0, closedConf |-> FALSE]

Init == InitLoop /\ InitDevice /\ InitHttp
InitSat == InitLoopSat /\ InitDevice /\ InitHttp

Next == loop \/ handleWebSocketMessage

Spec == Init /\ [][Next]_vars
SpecSat == InitSat /\ [][Next]_vars

NextDevice == CallHomeAxis \/ CallSetPosition
SpecDevice == Init /\ [][NextDevice]_vars

NextHttp ==
    \/ getDeviceType \/ getNumberOfAxes \/ getPosition \/ homeAxis
    \/ axisHomeCheck \/ setPosition \/ getAxesLimits
SpecHttp == Init /\ [][NextHttp]_vars

----------------------------------------------------------------------------
(* Claims about struct Button under loop()                                 *)

\* The last loop() iteration read a settled LOW / HIGH level, judged from
\* the raw samples and their timestamps.
LastSettledLow  == reads > 0 /\ mon.settled /\ mon.raw = LOW
LastSettledHigh == reads > 0 /\ mon.settled /\ mon.raw = HIGH

\* C1: from construction (lastReading = HIGH, state = 0), when the raw level
\* goes LOW and stays LOW until settled and later goes HIGH and stays HIGH
\* until settled, pressed() is true after exactly one read(), held() is true
\* after every later settled LOW read(), and released() is true after
\* exactly one read() once HIGH has settled (and after none before).
C1_PressHoldRelease ==
    /\ (mon.phase \in {"low", "high"} /\ mon.lowSettled >= 1
            => mon.nPressed = 1 /\ mon.heldOk)
    /\ (mon.phase \in {"idle", "low"} \/ (mon.phase = "high" /\ ~mon.highSettled)
            => mon.nReleased = 0)
    /\ (mon.phase = "high" /\ mon.lowSettled >= 1 /\ mon.highSettled
            => mon.nReleased = 1)

\* C2: bounce is absorbed: as long as every read() so far came no more than
\* DEBOUNCE_DELAY ms after the last change of the raw level, state is 0 and
\* neither pressed() nor released() has been true after any read().
C2_BounceAbsorbed ==
    mon.bouncing => button.state = 0 /\ mon.nPressed = 0 /\ mon.nReleased = 0

\* C2 witness: three raw changes, the last read() exactly DEBOUNCE_DELAY ms
\* after the latest one and more than two debounce windows after start-up.
C2_Witness ==
    /\ mon.bouncing /\ mon.changes >= 3 /\ reads >= 4
    /\ now - mon.rawSince = DEBOUNCE_DELAY
    /\ now > 2 * DEBOUNCE_DELAY
    /\ button.state = 0

\* C3: pressed() is a one-sample edge: if pressed() was true after one
\* read(), it is false after the next read().
C3_PressedOneSample ==
    reads > 0 /\ mon.prev = 1 => ~pressed(button)

\* C4: released() is a one-sample edge: if state was the released sentinel
\* after one read(), then after the next read() state is 0 and released()
\* is false, whatever level that read() sampled.
C4_ReleasedOneSample ==
    reads > 0 /\ mon.prev = RELEASED_SENTINEL
        => button.state = 0 /\ ~released(button)

----------------------------------------------------------------------------
(* Claims about class Device                                               *)

\* C5: after any sequence of Device operations (construction, homeAxis,
\* setPosition with any target), 0 <= getPosition() <= getLimit().
C5_PositionInRange ==
    /\ FLe(F(0), Device_getPosition(device))
    /\ FLe(Device_getPosition(device), Device_getLimit(device))

\* C5 witness: setPosition above the limit was called on a moved axis.
C5_Witness ==
    /\ lastCall.op = "setPosition" /\ lastCall.arg = F(2000)
    /\ lastCall.before.currentPosition = F(42)
    /\ Device_getPosition(device) = Device_getLimit(device)

\* C6: setPosition(target) clamps and commits in one step for every finite
\* target: below 0 gives 0, within [0, limit] gives target, above limit
\* gives limit, with limit the value of getLimit().
C6_ClampAndCommit ==
    lastCall.op = "setPosition" /\ lastCall.arg.cls = "fin"
        => LET target == lastCall.arg.v
               lim    == Device_getLimit(device).v
           IN  /\ target < 0 => Device_getPosition(device) = F(0)
               /\ 0 <= target /\ target <= lim
                      => Device_getPosition(device) = F(target)
               /\ target > lim => Device_getPosition(device) = F(lim)

\* C6 witness: a negative target was committed as 0 from another position.
C6_Witness ==
    /\ lastCall.op = "setPosition" /\ lastCall.arg = F(-5)
    /\ lastCall.before.currentPosition = F(DEVICE_LIMIT)
    /\ Device_getPosition(device) = F(0)

\* C7: homeAxis() yields getPosition() = 0 and isHomed() = true whatever the
\* position was, and a second homeAxis() in a row leaves position, homed
\* and limit as the first one left them.
C7_HomeResetsAndIsIdempotent ==
    /\ lastCall.op = "homeAxis"
           => Device_getPosition(device) = F(0) /\ Device_isHomed(device)
    /\ lastCall.op = "homeAxis" /\ lastCall.prevOp = "homeAxis"
           => device = lastCall.before

\* C7 witness: homeAxis() was called twice in a row, the first time on an
\* axis that was not homed and stood at 42.
C7_Witness ==
    /\ lastCall.op = "homeAxis" /\ lastCall.prevOp = "homeAxis"
    /\ lastCall.prevBefore.currentPosition = F(42)
    /\ ~lastCall.prevBefore.homed
    /\ Device_getPosition(device) = F(0) /\ Device_isHomed(device)

----------------------------------------------------------------------------
(* Claims about the HTTP handlers                                          *)

\* C10: after any sequence of /setPosition, /homeAxis and /getPosition
\* requests, the position answered by /getPosition lies in [0, limit], with
\* limit the value answered by /getAxesLimits.
C10_AnsweredPositionInRange ==
    response.kind = "getPosition"
        => /\ FLe(F(0), response.position[1])
           /\ FLe(response.position[1], F(AXIS_LIMIT))

\* C11: after a /homeAxis request the next /axisHomeCheck reports homed =
\* true and the next /getPosition reports position 0, whatever position was
\* set before.
C11_HomeRequestHomes ==
    httpMon.homeFresh
        => /\ response.kind = "axisHomeCheck" => response.homeStatus[1] = TRUE
           /\ response.kind = "getPosition" => response.position[1] = F(0)

----------------------------------------------------------------------------
(* Further claims about class Device                                       *)

\* C12: homed is false after construction, becomes true only as the result
\* of homeAxis(), and once true stays true under every later setPosition
\* and homeAxis call.
C12_HomedOnlyByHomeAxis ==
    /\ lastCall.op = "Device" => ~Device_isHomed(device)
    /\ ~lastCall.before.homed /\ Device_isHomed(device)
           => lastCall.op = "homeAxis"
    /\ lastCall.before.homed => Device_isHomed(device)

\* C12 witness: setPosition was called on a homed axis, right after the
\* homeAxis() that homed it, and the axis is still homed.
C12_Witness ==
    /\ lastCall.op = "setPosition" /\ lastCall.arg = F(42)
    /\ lastCall.prevOp = "homeAxis" /\ ~lastCall.prevBefore.homed
    /\ lastCall.before.homed /\ Device_isHomed(device)

\* C13: construction takes the axis limit from the caller: right after
\* construction getPosition() = 0, isHomed() = false and getLimit() is the
\* limit configured for the axis (AXIS_LIMIT, 80), and setPosition(200)
\* then yields getPosition() = 80.
C13_LimitAsConfigured ==
    /\ lastCall.op = "Device"
           => /\ Device_getPosition(device) = F(0)
              /\ ~Device_isHomed(device)
              /\ Device_getLimit(device) = F(AXIS_LIMIT)
    /\ lastCall.op = "setPosition" /\ lastCall.arg = F(200)
           => Device_getPosition(device) = F(AXIS_LIMIT)

\* C19: setPosition with a NaN target takes no branch: position, homed and
\* limit are left as they were and the range invariant still holds.
C19_NaNChangesNothing ==
    lastCall.op = "setPosition" /\ IsNaN(lastCall.arg)
        => /\ device = lastCall.before
           /\ FLe(F(0), Device_getPosition(device))
           /\ FLe(Device_getPosition(device), Device_getLimit(device))

\* C19 witness: setPosition(NaN) was called on a homed axis standing at 42.
C19_Witness ==
    /\ lastCall.op = "setPosition" /\ IsNaN(lastCall.arg)
    /\ lastCall.before.currentPosition = F(42) /\ lastCall.before.homed
    /\ Device_getPosition(device) = F(42) /\ Device_isHomed(device)

----------------------------------------------------------------------------
(* Further claims about struct Button and loop()                           *)

\* C14: state never reflects raw bounce: a read() that comes no more than
\* DEBOUNCE_DELAY ms after the last change of the raw level (exactly
\* DEBOUNCE_DELAY included, and every read() that sees the level change)
\* leaves state as it was.
C14_UnsettledReadKeepsState ==
    reads > 0 /\ now - mon.rawSince <= DEBOUNCE_DELAY
        => button.state = mon.prev

\* C14 witness: a press was confirmed and counted to 2, the level bounced,
\* and a LOW read() exactly DEBOUNCE_DELAY ms after the last change left
\* state at 2.
C14_Witness ==
    /\ reads > 0 /\ mon.raw = LOW /\ mon.changes >= 3
    /\ now - mon.rawSince = DEBOUNCE_DELAY
    /\ mon.prev = 2 /\ button.state = 2

\* C15: a settled active read() performed while state is the released
\* sentinel sets state to 2.
C15_SentinelToTwo ==
    LastSettledLow /\ mon.prev = RELEASED_SENTINEL => button.state = 2

\* C16: a settled inactive read() leaves state 0 at 0, takes the released
\* sentinel to 0 and any other state to the released sentinel; so a
\* confirmed press only ever leaves through the sentinel, and the sentinel
\* only ever to 0.
C16_SettledInactiveStep ==
    /\ LastSettledHigh
           => button.state =
                  IF mon.prev = 0 \/ mon.prev = RELEASED_SENTINEL
                  THEN 0 ELSE RELEASED_SENTINEL
    /\ reads > 0 /\ mon.prev \in 1..HELD_MAX => button.state # 0
    /\ reads > 0 /\ mon.prev = RELEASED_SENTINEL
           => button.state \in {0, RELEASED_SENTINEL}

\* C16 witness: a confirmed press was released, the sentinel was answered
\* after exactly one read() and the next settled inactive read() took it
\* to 0.
C16_Witness ==
    /\ LastSettledHigh /\ mon.prev = RELEASED_SENTINEL /\ button.state = 0
    /\ mon.nPressed = 1 /\ mon.nReleased = 1

\* C17: no confirmed press is lost: every maximal run of consecutive LOW
\* samples that settles contains exactly one read() after which pressed()
\* is true, whatever state was when the run began (never more than one
\* during the run, exactly one once the run has ended).
C17_OnePressedPerRun ==
    mon.runSettled
        => /\ mon.runPressed <= 1
           /\ mon.raw = HIGH => mon.runPressed = 1

\* C18: one physical press toggles the LED exactly once: between two
\* consecutive settled inactive readings loop() toggles led.on at most
\* once, and exactly once if a LOW reading settled in between.
C18_OneTogglePerPress ==
    /\ mon.tog <= 1
    /\ LastSettledHigh /\ mon.closedConf => mon.closedTog = 1

=============================================================================
